---------------------------- MODULE Spec2Model ----------------------------
(***************************************************************************)
(* pgbackuproll (src/src/main.rs): a rolling set of timestamped database   *)
(* dumps in one backup directory.  main calls make_room, make_backup and   *)
(* make_room again; make_room compresses or deletes backups until enough   *)
(* disk space is free; delete_one picks the backup closest in time to its  *)
(* neighbours.                                                             *)
(*                                                                         *)
(* Units.  Times are whole seconds since 1970-01-01T00:00:00Z (chrono's    *)
(* DateTime<Utc> at the precision of the filename format).  Sizes are      *)
(* counted in GiB.  A filename is a sequence of one-character strings.     *)
(***************************************************************************)
EXTENDS Integers, Sequences, FiniteSets, TLC

(***************************************************************************)
(* Filenames: chrono's strftime/strptime for                               *)
(* "%Y-%m-%d_%H-%M-%S.sql" and "%Y-%m-%d_%H-%M-%S.sql.gz".                 *)
(***************************************************************************)
Digits == <<"0", "1", "2", "3", "4", "5", "6", "7", "8", "9">>

IsDigit(c) == \E i \in 1..10 : Digits[i] = c

DigitVal(c) == (CHOOSE i \in 1..10 : Digits[i] = c) - 1

\* zero-padded decimal of n in w characters (%Y is 4 wide, the others 2)
RECURSIVE Pad(_, _)
Pad(n, w) == IF w = 0 THEN <<>> ELSE Pad(n \div 10, w - 1) \o <<Digits[(n % 10) + 1]>>

\* the value of a run of digits
RECURSIVE Num(_)
Num(s) == IF s = <<>> THEN 0 ELSE 10 * Num(SubSeq(s, 1, Len(s) - 1)) + DigitVal(s[Len(s)])

AllDigits(s) == \A i \in 1..Len(s) : IsDigit(s[i])

\* proleptic Gregorian calendar, days since 1970-01-01
DaysFromCivil(y0, m, d) ==
    LET y   == IF m <= 2 THEN y0 - 1 ELSE y0
        era == y \div 400
        yoe == y - era * 400
        mp  == IF m > 2 THEN m - 3 ELSE m + 9
        doy == (153 * mp + 2) \div 5 + d - 1
        doe == yoe * 365 + yoe \div 4 - yoe \div 100 + doy
    IN  era * 146097 + doe - 719468

CivilFromDays(z0) ==
    LET z   == z0 + 719468
        era == z \div 146097
        doe == z - era * 146097
        yoe == (doe - doe \div 1460 + doe \div 36524 - doe \div 146096) \div 365
        doy == doe - (365 * yoe + yoe \div 4 - yoe \div 100)
        mp  == (5 * doy + 2) \div 153
        d   == doy - (153 * mp + 2) \div 5 + 1
        m   == IF mp < 10 THEN mp + 3 ELSE mp - 9
        y   == yoe + era * 400 + (IF m <= 2 THEN 1 ELSE 0)
    IN  [year |-> y, month |-> m, day |-> d]

IsLeap(y) == (y % 4 = 0 /\ y % 100 # 0) \/ y % 400 = 0

DaysInMonth(y, m) ==
    IF m = 2 THEN (IF IsLeap(y) THEN 29 ELSE 28)
    ELSE IF m \in {4, 6, 9, 11} THEN 30 ELSE 31

SecondsPerDay == 86400

UNCOMPRESSED_SUFFIX == <<".", "s", "q", "l">>
COMPRESSED_SUFFIX == <<".", "s", "q", "l", ".", "g", "z">>

\* "%Y-%m-%d_%H-%M-%S" of a time, for years 0000..9999
FormatStamp(t) ==
    LET c == CivilFromDays(t \div SecondsPerDay)
        s == t % SecondsPerDay
    IN  Pad(c.year, 4) \o <<"-">> \o Pad(c.month, 2) \o <<"-">> \o Pad(c.day, 2)
        \o <<"_">> \o Pad(s \div 3600, 2) \o <<"-">> \o Pad((s \div 60) % 60, 2)
        \o <<"-">> \o Pad(s % 60, 2)

\* Utc::now().format(UNCOMPRESSED_FILENAME_FORMAT).to_string()
FormatUncompressed(t) == FormatStamp(t) \o UNCOMPRESSED_SUFFIX

\* the name gzip gives its output: the path with ".gz" appended
GzName(name) == name \o <<".", "g", "z">>

FormatCompressed(t) == GzName(FormatUncompressed(t))

NoTime == -1

StampLen == 19

\* Utc.datetime_from_str(name, "%Y-%m-%d_%H-%M-%S" ++ suffix): the time, or NoTime
\* for a parse error (wrong literal, non-digit, out-of-range field, input left over)
ParseWith(name, suffix) ==
    IF Len(name) # StampLen + Len(suffix) THEN NoTime
    ELSE IF SubSeq(name, StampLen + 1, Len(name)) # suffix THEN NoTime
    ELSE IF ~ (/\ name[5] = "-" /\ name[8] = "-" /\ name[11] = "_"
               /\ name[14] = "-" /\ name[17] = "-") THEN NoTime
    ELSE LET ys == SubSeq(name, 1, 4)
             ms == SubSeq(name, 6, 7)
             ds == SubSeq(name, 9, 10)
             hs == SubSeq(name, 12, 13)
             ns == SubSeq(name, 15, 16)
             ss == SubSeq(name, 18, 19)
         IN  IF ~ (AllDigits(ys) /\ AllDigits(ms) /\ AllDigits(ds)
                   /\ AllDigits(hs) /\ AllDigits(ns) /\ AllDigits(ss)) THEN NoTime
             ELSE LET y == Num(ys)
                      m == Num(ms)
                      d == Num(ds)
                      h == Num(hs)
                      n == Num(ns)
                      s == Num(ss)
                  IN  IF /\ m \in 1..12
                         /\ d \in 1..DaysInMonth(y, m)
                         /\ h \in 0..23
                         /\ n \in 0..59
                         /\ s \in 0..59
                      THEN DaysFromCivil(y, m, d) * SecondsPerDay + h * 3600 + n * 60 + s
                      ELSE NoTime

\* (mutant) without the or_else: the uncompressed format alone
ParseFilenameNoFallback(name) == ParseWith(name, UNCOMPRESSED_SUFFIX)

\* datetime_from_str(UNCOMPRESSED).or_else(|_| datetime_from_str(COMPRESSED))
ParseFilename(name) ==
    LET u == ParseWith(name, UNCOMPRESSED_SUFFIX)
    IN  IF u # NoTime THEN u ELSE ParseWith(name, COMPRESSED_SUFFIX)

\* Path::extension() == Some("gz"): the part after the last dot, when the name
\* has a dot that is not its first character
HasGzExtension(name) ==
    /\ Len(name) >= 4
    /\ SubSeq(name, Len(name) - 2, Len(name)) = <<".", "g", "z">>


(***************************************************************************)
(* The Eviction Selector: the match of delete_one over the BTreeMap        *)
(* `timestamps` (time -> filename).                                        *)
(***************************************************************************)
\* BTreeMap iteration order: the keys ascending
RECURSIVE SortedKeys(_)
SortedKeys(S) ==
    IF S = {} THEN <<>>
    ELSE LET lo == CHOOSE x \in S : \A y \in S : x <= y
         IN  <<lo>> \o SortedKeys(S \ {lo})

\* (mutant) the pair of gaps without diffs.sort()
SortedDiffsUnsorted(prev, curr, next) == <<curr - prev, next - curr>>

\* let mut diffs = [curr - prev, next - curr]; diffs.sort(); diffs
SortedDiffs(prev, curr, next) ==
    LET a == curr - prev
        b == next - curr
    IN  IF a <= b THEN <<a, b>> ELSE <<b, a>>

\* Ord on [Duration; 2]: lexicographic
DiffsLess(x, y) == x[1] < y[1] \/ (x[1] = y[1] /\ x[2] < y[2])

\* the key of window i of tuple_windows: (keys[i], keys[i+1], keys[i+2])
WindowKey(keys, i) == SortedDiffs(keys[i], keys[i + 1], keys[i + 2])

\* (mutant) max-style fold: the later of two windows with equal keys wins
RECURSIVE MinByKeyLast(_, _, _, _)
MinByKeyLast(keys, best, i, n) ==
    IF i > n THEN best
    ELSE MinByKeyLast(keys,
                      IF DiffsLess(WindowKey(keys, best), WindowKey(keys, i)) THEN best ELSE i,
                      i + 1, n)

\* Iterator::min_by_key over windows i..n: a fold that keeps the element seen
\* so far unless the next one's key is strictly smaller (the first minimum)
RECURSIVE MinByKey(_, _, _, _)
MinByKey(keys, best, i, n) ==
    IF i > n THEN best
    ELSE MinByKey(keys,
                  IF DiffsLess(WindowKey(keys, i), WindowKey(keys, best)) THEN i ELSE best,
                  i + 1, n)

NoVictim == <<>>

\* (mutant) the first element of the least window instead of its middle
SelectVictimPrev(ts) ==
    LET keys == SortedKeys(DOMAIN ts)
        n    == Len(keys)
    IN  IF n <= 1 THEN NoVictim
        ELSE IF n = 2 THEN ts[keys[1]]
        ELSE ts[keys[MinByKey(keys, 1, 2, n - 2)]]

\* (mutant) of two entries the last value
SelectVictimNewer(ts) ==
    LET keys == SortedKeys(DOMAIN ts)
        n    == Len(keys)
    IN  IF n <= 1 THEN NoVictim
        ELSE IF n = 2 THEN ts[keys[2]]
        ELSE ts[keys[MinByKey(keys, 1, 2, n - 2) + 1]]

\* (mutant) 0 => return Ok(false), 1 | 2 => first value
SelectVictimSingle(ts) ==
    LET keys == SortedKeys(DOMAIN ts)
        n    == Len(keys)
    IN  IF n = 0 THEN NoVictim
        ELSE IF n <= 2 THEN ts[keys[1]]
        ELSE ts[keys[MinByKey(keys, 1, 2, n - 2) + 1]]

\* (mutant) the last element of the least window instead of its middle
SelectVictimNext(ts) ==
    LET keys == SortedKeys(DOMAIN ts)
        n    == Len(keys)
    IN  IF n <= 1 THEN NoVictim
        ELSE IF n = 2 THEN ts[keys[1]]
        ELSE ts[keys[MinByKey(keys, 1, 2, n - 2) + 2]]

\* match timestamps.len() { 0 | 1 => return Ok(false), 2 => first value,
\*                          _ => middle of the window with the least key }
SelectVictim(ts) ==
    LET keys == SortedKeys(DOMAIN ts)
        n    == Len(keys)
    IN  IF n <= 1 THEN NoVictim
        ELSE IF n = 2 THEN ts[keys[1]]
        ELSE ts[keys[MinByKey(keys, 1, 2, n - 2) + 1]]

\* the maps the scan of delete_one can build from names that all parse: one
\* entry per time; of several names with the same time the one listed last
\* stays, and the listing order is the operating system's
RECURSIVE IndexesOver(_, _)
IndexesOver(keys, names) ==
    IF keys = {} THEN {<<>>}
    ELSE LET k == CHOOSE x \in keys : TRUE
         IN  {(k :> nm) @@ ts :
                 nm \in {x \in names : ParseFilename(x) = k},
                 ts \in IndexesOver(keys \ {k}, names)}

IndexesOf(names) == IndexesOver({ParseFilename(nm) : nm \in names}, names)

(***************************************************************************)
(* make_room's threshold test and its scan for the smallest uncompressed   *)
(* backup.                                                                 *)
(***************************************************************************)
\* ByteSize::gib(n), in the model's unit
GiB == 1

ByteSizeGib(n) == n * GiB

\* (mutant) <= on the absolute floor
NeedsRoomLeq(fs, amount) ==
    \/ fs.avail <= ByteSizeGib(amount)
    \/ fs.avail * 100 < amount * fs.total

\* (mutant) && for ||
NeedsRoomAnd(fs, amount) ==
    /\ fs.avail < ByteSizeGib(amount)
    /\ fs.avail * 100 < amount * fs.total

\* fs.avail < ByteSize::gib(amount)
\*   || (fs.avail as f64 / fs.total as f64) < (amount as f64 / 100.0)
\* (total > 0; the quotients compare as the exact ratios at these magnitudes)
NeedsRoom(fs, amount) ==
    \/ fs.avail < ByteSizeGib(amount)
    \/ fs.avail * 100 < amount * fs.total

None == <<>>

Some(x) == <<x>>

\* (mutant) size > smallest_size: the scan keeps the largest
SmallestUncompressedLargest(d) ==
    LET unc == {nm \in DOMAIN d : ~ HasGzExtension(nm)}
    IN  IF unc = {} THEN {None}
        ELSE {Some([path |-> nm, size |-> d[nm]]) :
                 nm \in {x \in unc : \A y \in unc : d[x] >= d[y]}}

\* the (path, size) pairs the scan can end with: an entry without the gz
\* extension of the least size; among equals the one listed first
SmallestUncompressed(d) ==
    LET unc == {nm \in DOMAIN d : ~ HasGzExtension(nm)}
    IN  IF unc = {} THEN {None}
        ELSE {Some([path |-> nm, size |-> d[nm]]) :
                 nm \in {x \in unc : \A y \in unc : d[x] <= d[y]}}

\* (mutant) the comparison turned round
FitsInReversed(size, fs) == fs.avail < size

\* (mutant) <= for <
FitsInLeq(size, fs) == size <= fs.avail

\* ByteSize::b(size) < fs.avail
FitsIn(size, fs) == size < fs.avail


(***************************************************************************)
(* Bounds of the model.                                                    *)
(***************************************************************************)
\* the capacity query answers avail in AMOUNT - Below .. AMOUNT + Above
Below == 2

Above == 1

\* the selector is also run on every directory of backups stamped on the
\* hours 0..SelMaxHour of 2024-01-01 and at 00:50 and 01:10
SelMaxHour == 4

Midnight == DaysFromCivil(2024, 1, 1) * SecondsPerDay

At(h, m) == Midnight + h * 3600 + m * 60

\* a run of main starts on backups stamped at these times
Times == {At(0, 0), At(1, 0), At(1, 10), At(3, 0)}

\* the times at which make_backup runs: between two backups, and on the last
NowTimes == {At(1, 10), At(3, 0)}

SelTimes == {At(h, 0) : h \in 0..SelMaxHour} \cup {At(0, 50), At(1, 10)}

\* sizes of uncompressed dumps, and the sizes of file systems
Sizes == {8, 9}

Totals == {50, 110}

\* what gzip leaves of a file of the given size
GzSize(size) == size \div 2

\* a file that is no backup
JunkName == <<"n", "o", "t", "e", "s">>

\* main passes 10 to both make_room calls
AMOUNT == 10

Avails == (AMOUNT - Below)..(AMOUNT + Above)

JunkSize == 8

(***************************************************************************)
(* State.  Every process is one run of main; its locals are functions of   *)
(* the process.  dir is the backup directory, shared by all runs.          *)
(***************************************************************************)
VARIABLES
    dir,                    \* filename -> len() of the file
    pc,                     \* where each run is
    call,                   \* which make_room call of main is running: 1 or 2
    fs,                     \* make_room: the last mount_at answer
    smallest_uncompressed,  \* make_room: the scan's result, None or Some
    timestamps,             \* delete_one: the BTreeMap
    filename,               \* delete_one: the name to delete
    ret,                    \* what the last make_room call returned
    outcome,                \* how main ended: "running", "ok" or the error
    now,                    \* make_backup: the time of the new dump, or NoTime
    queries,                \* mount_at queries of the current make_room call
    listings,               \* read_dir calls of the current make_room call
    gzipped,                \* files compressed by the current make_room call
    deleted,                \* names deleted by the current make_room call, in order
    dumps,                  \* pg_dumpall invocations of the run
    failed,                 \* the step whose error ended the run, or "none"
    snapshot                \* make_backup: the names in the directory before File::create

vars == <<dir, pc, call, fs, smallest_uncompressed, timestamps, filename, ret,
          outcome, now, queries, listings, gzipped, deleted, dumps, failed, snapshot>>

locals == <<fs, smallest_uncompressed, timestamps, filename>>

history == <<queries, listings, gzipped, deleted, dumps>>

Procs == DOMAIN pc

\* the one run of main of a single-instance execution
Main == "main"

NoFs == [avail |-> 0, total |-> 0]

\* the directories of backups stamped in Times, each an uncompressed dump of a
\* size in Sizes or its compressed form
RECURSIVE DirsOver(_, _)
DirsOver(T, S) ==
    IF T = {} THEN {<<>>}
    ELSE LET t == CHOOSE x \in T : TRUE
         IN  UNION {{d} \cup {(FormatUncompressed(t) :> s) @@ d : s \in S}
                        \cup {(FormatCompressed(t) :> GzSize(s)) @@ d : s \in S} :
                    d \in DirsOver(T \ {t}, S)}

\* ... and the same with one file that is no backup
InitDirs ==
    DirsOver(Times, Sizes) \cup {(JunkName :> JunkSize) @@ d : d \in DirsOver(Times, Sizes)}

StartOf(P) ==
    /\ pc = [p \in P |-> "make_room"]
    /\ call = [p \in P |-> 1]
    /\ fs = [p \in P |-> NoFs]
    /\ smallest_uncompressed = [p \in P |-> None]
    /\ timestamps = [p \in P |-> <<>>]
    /\ filename = [p \in P |-> NoVictim]
    /\ ret = [p \in P |-> "none"]
    /\ outcome = [p \in P |-> "running"]
    /\ now = [p \in P |-> NoTime]
    /\ queries = [p \in P |-> 0]
    /\ listings = [p \in P |-> 0]
    /\ gzipped = [p \in P |-> 0]
    /\ deleted = [p \in P |-> <<>>]
    /\ dumps = [p \in P |-> 0]
    /\ failed = [p \in P |-> "none"]
    /\ snapshot = [p \in P |-> {}]

Init ==
    /\ dir \in InitDirs
    /\ StartOf({Main})


(***************************************************************************)
(* The program.  One action per step between two suspension points.        *)
(***************************************************************************)
Set(f, p, v) == [f EXCEPT ![p] = v]

\* `?` on an Err: the locals are dropped and main returns the error
Fail(p, err) ==
    /\ pc' = Set(pc, p, "exit")
    /\ outcome' = Set(outcome, p, err)
    /\ failed' = Set(failed, p, pc[p])
    /\ fs' = Set(fs, p, NoFs)
    /\ smallest_uncompressed' = Set(smallest_uncompressed, p, None)
    /\ timestamps' = Set(timestamps, p, <<>>)
    /\ filename' = Set(filename, p, NoVictim)

\* a step that does not fail
Ok(p, to) ==
    /\ pc' = Set(pc, p, to)
    /\ UNCHANGED <<outcome, failed>>

\* make_room, entry: let dir = backup_path()?
MakeRoom(p) ==
    /\ pc[p] = "make_room"
    /\ \/ /\ Ok(p, "loop")
          /\ ret' = Set(ret, p, "none")
          /\ queries' = Set(queries, p, 0)
          /\ listings' = Set(listings, p, 0)
          /\ gzipped' = Set(gzipped, p, 0)
          /\ deleted' = Set(deleted, p, <<>>)
          /\ UNCHANGED locals
       \/ /\ Fail(p, "BackupDir")
          /\ UNCHANGED <<ret, queries, listings, gzipped, deleted>>
    /\ UNCHANGED <<dir, call, now, dumps, snapshot>>

\* make_room, top of the loop: the capacity query and the threshold test
Query(p) ==
    /\ pc[p] = "loop"
    /\ \/ /\ Fail(p, "NoMount")
          /\ UNCHANGED <<ret, queries>>
       \/ \E a \in Avails, t \in Totals :
             LET answer == [avail |-> a, total |-> t]
             IN  /\ fs' = Set(fs, p, answer)
                 /\ queries' = Set(queries, p, queries[p] + 1)
                 /\ IF NeedsRoom(answer, AMOUNT)
                    THEN Ok(p, "scan") /\ UNCHANGED ret
                    ELSE Ok(p, "ret") /\ ret' = Set(ret, p, "true")
                 /\ UNCHANGED <<smallest_uncompressed, timestamps, filename>>
    /\ UNCHANGED <<dir, call, now, listings, gzipped, deleted, dumps, snapshot>>

\* make_room: the scan for the smallest uncompressed backup and the choice
\* between gzip and delete_one (the `if let` consumes smallest_uncompressed)
Scan(p) ==
    /\ pc[p] = "scan"
    /\ \/ /\ Fail(p, "Wheel")
          /\ UNCHANGED listings
       \/ /\ \E nm \in DOMAIN dir : ~ HasGzExtension(nm)
          /\ Fail(p, "Io")
          /\ listings' = Set(listings, p, listings[p] + 1)
       \/ \E su \in SmallestUncompressed(dir) :
             /\ listings' = Set(listings, p, listings[p] + 1)
             /\ IF su # None /\ FitsIn(su[1].size, fs[p])
                THEN /\ Ok(p, "gzip")
                     /\ smallest_uncompressed' = Set(smallest_uncompressed, p, su)
                ELSE /\ Ok(p, "delete_one")
                     /\ smallest_uncompressed' = Set(smallest_uncompressed, p, None)
             /\ UNCHANGED <<fs, timestamps, filename>>
    /\ UNCHANGED <<dir, call, ret, now, queries, gzipped, deleted, dumps, snapshot>>

\* (mutant) gzip --keep: the compressed form beside the file
CompressedKeep(d, path) == (GzName(path) :> GzSize(d[path])) @@ d

\* (mutant) the compressed file named by path.with_extension("gz")
CompressedRenamed(d, path) ==
    LET gz == SubSeq(path, 1, Len(path) - 4) \o <<".", "g", "z">>
    IN  [nm \in (DOMAIN d \ {path}) \cup {gz} |->
            IF nm = gz THEN GzSize(d[path]) ELSE d[nm]]

\* the directory after gzip has replaced path by its compressed form
Compressed(d, path) ==
    [nm \in (DOMAIN d \ {path}) \cup {GzName(path)} |->
        IF nm = GzName(path) THEN GzSize(d[path]) ELSE d[nm]]

\* (mutant) a gzip that fails is followed by delete_one instead of `?`
GzipFallback(p) ==
    /\ pc[p] = "gzip"
    /\ LET path == smallest_uncompressed[p][1].path
       IN  \/ /\ Ok(p, "delete_one")
              /\ smallest_uncompressed' = Set(smallest_uncompressed, p, None)
              /\ UNCHANGED <<dir, gzipped, fs, timestamps, filename>>
           \/ /\ path \in DOMAIN dir
              /\ GzName(path) \notin DOMAIN dir
              /\ dir' = Compressed(dir, path)
              /\ gzipped' = Set(gzipped, p, gzipped[p] + 1)
              /\ smallest_uncompressed' = Set(smallest_uncompressed, p, None)
              /\ Ok(p, "loop")
              /\ UNCHANGED <<fs, timestamps, filename>>
    /\ UNCHANGED <<call, ret, now, queries, listings, deleted, dumps, snapshot>>

\* make_room: Command::new("gzip").arg(path).check("gzip"), then continue.
\* gzip fails when its input is gone or its output exists.
Gzip(p) ==
    /\ pc[p] = "gzip"
    /\ LET path == smallest_uncompressed[p][1].path
       IN  \/ /\ Fail(p, "Wheel")
              /\ UNCHANGED <<dir, gzipped>>
           \/ /\ path \in DOMAIN dir
              /\ GzName(path) \notin DOMAIN dir
              /\ dir' = Compressed(dir, path)
              /\ gzipped' = Set(gzipped, p, gzipped[p] + 1)
              /\ smallest_uncompressed' = Set(smallest_uncompressed, p, None)
              /\ Ok(p, "loop")
              /\ UNCHANGED <<fs, timestamps, filename>>
    /\ UNCHANGED <<call, ret, now, queries, listings, deleted, dumps, snapshot>>

\* (mutant) entries whose names do not parse are skipped
DeleteOneSkipping(p) ==
    /\ pc[p] = "delete_one"
    /\ \/ /\ Fail(p, "BackupDir")
          /\ UNCHANGED <<ret, listings>>
       \/ /\ Fail(p, "Wheel")
          /\ UNCHANGED <<ret, listings>>
       \/ /\ \E ts \in IndexesOf({nm \in DOMAIN dir : ParseFilename(nm) # NoTime}) :
                /\ timestamps' = Set(timestamps, p, ts)
                /\ filename' = Set(filename, p, SelectVictim(ts))
                /\ IF SelectVictim(ts) = NoVictim
                   THEN Ok(p, "ret") /\ ret' = Set(ret, p, "false")
                   ELSE Ok(p, "remove_file") /\ UNCHANGED ret
          /\ listings' = Set(listings, p, listings[p] + 1)
          /\ UNCHANGED <<fs, smallest_uncompressed>>
    /\ UNCHANGED <<dir, call, now, queries, gzipped, deleted, dumps, snapshot>>

\* delete_one up to the choice of the file: the listing, the BTreeMap and
\* the match on its length
DeleteOne(p) ==
    /\ pc[p] = "delete_one"
    /\ \/ /\ Fail(p, "BackupDir")
          /\ UNCHANGED <<ret, listings>>
       \/ /\ Fail(p, "Wheel")
          /\ UNCHANGED <<ret, listings>>
       \/ /\ \E nm \in DOMAIN dir : ParseFilename(nm) = NoTime
          /\ Fail(p, "ChronoParse")
          /\ listings' = Set(listings, p, listings[p] + 1)
          /\ UNCHANGED ret
       \/ /\ \A nm \in DOMAIN dir : ParseFilename(nm) # NoTime
          /\ \E ts \in IndexesOf(DOMAIN dir) :
                /\ timestamps' = Set(timestamps, p, ts)
                /\ filename' = Set(filename, p, SelectVictim(ts))
                /\ IF SelectVictim(ts) = NoVictim
                   THEN Ok(p, "ret") /\ ret' = Set(ret, p, "false")
                   ELSE Ok(p, "remove_file") /\ UNCHANGED ret
          /\ listings' = Set(listings, p, listings[p] + 1)
          /\ UNCHANGED <<fs, smallest_uncompressed>>
    /\ UNCHANGED <<dir, call, now, queries, gzipped, deleted, dumps, snapshot>>

Without(d, nm) == [x \in DOMAIN d \ {nm} |-> d[x]]

\* (mutant) a file that is already gone counts as removed
RemoveFileForce(p) ==
    /\ pc[p] = "remove_file"
    /\ \/ /\ filename[p] \in DOMAIN dir
          /\ Fail(p, "Wheel")
          /\ UNCHANGED <<dir, deleted>>
       \/ /\ dir' = IF filename[p] \in DOMAIN dir THEN Without(dir, filename[p]) ELSE dir
          /\ deleted' = Set(deleted, p, Append(deleted[p], filename[p]))
          /\ UNCHANGED smallest_uncompressed
          /\ timestamps' = Set(timestamps, p, <<>>)
          /\ filename' = Set(filename, p, NoVictim)
          /\ Ok(p, "loop")
          /\ UNCHANGED fs
    /\ UNCHANGED <<call, ret, now, queries, listings, gzipped, dumps, snapshot>>

\* delete_one: fs::remove_file(dir.join(filename)), Ok(true), and make_room
\* goes round its loop
RemoveFile(p) ==
    /\ pc[p] = "remove_file"
    /\ \/ /\ Fail(p, "Wheel")
          /\ UNCHANGED <<dir, deleted>>
       \/ /\ filename[p] \in DOMAIN dir
          /\ dir' = Without(dir, filename[p])
          /\ deleted' = Set(deleted, p, Append(deleted[p], filename[p]))
          /\ UNCHANGED smallest_uncompressed
          /\ timestamps' = Set(timestamps, p, <<>>)
          /\ filename' = Set(filename, p, NoVictim)
          /\ Ok(p, "loop")
          /\ UNCHANGED fs
    /\ UNCHANGED <<call, ret, now, queries, listings, gzipped, dumps, snapshot>>

\* (mutant) main without the `if`: make_backup follows the first make_room
\* call whatever it returned
ReturnUngated(p) ==
    /\ pc[p] = "ret"
    /\ IF call[p] = 1
       THEN pc' = Set(pc, p, "make_backup") /\ UNCHANGED outcome
       ELSE pc' = Set(pc, p, "exit") /\ outcome' = Set(outcome, p, "ok")
    /\ fs' = Set(fs, p, NoFs)
    /\ smallest_uncompressed' = Set(smallest_uncompressed, p, None)
    /\ timestamps' = Set(timestamps, p, <<>>)
    /\ filename' = Set(filename, p, NoVictim)
    /\ UNCHANGED <<dir, call, ret, now, history, failed, snapshot>>

\* (mutant) main acting on the second result: false is an error
ReturnStrict(p) ==
    /\ pc[p] = "ret"
    /\ IF call[p] = 1 /\ ret[p] = "true"
       THEN pc' = Set(pc, p, "make_backup") /\ UNCHANGED outcome
       ELSE /\ pc' = Set(pc, p, "exit")
            /\ outcome' = Set(outcome, p, IF call[p] = 2 /\ ret[p] = "false"
                                          THEN "Io" ELSE "ok")
    /\ fs' = Set(fs, p, NoFs)
    /\ smallest_uncompressed' = Set(smallest_uncompressed, p, None)
    /\ timestamps' = Set(timestamps, p, <<>>)
    /\ filename' = Set(filename, p, NoVictim)
    /\ UNCHANGED <<dir, call, ret, now, history, failed, snapshot>>

\* main: what follows a make_room call that returned Ok
Return(p) ==
    /\ pc[p] = "ret"
    /\ IF call[p] = 1 /\ ret[p] = "true"
       THEN pc' = Set(pc, p, "make_backup") /\ UNCHANGED outcome
       ELSE pc' = Set(pc, p, "exit") /\ outcome' = Set(outcome, p, "ok")
    /\ fs' = Set(fs, p, NoFs)
    /\ smallest_uncompressed' = Set(smallest_uncompressed, p, None)
    /\ timestamps' = Set(timestamps, p, <<>>)
    /\ filename' = Set(filename, p, NoVictim)
    /\ UNCHANGED <<dir, call, ret, now, history, failed, snapshot>>

\* make_backup: backup_path()?, Utc::now() and File::create, which makes the
\* file or empties the one of that name
MakeBackup(p) ==
    /\ pc[p] = "make_backup"
    /\ \/ /\ Fail(p, "BackupDir")
          /\ UNCHANGED <<dir, now, snapshot>>
       \/ /\ Fail(p, "Io")
          /\ UNCHANGED <<dir, now, snapshot>>
       \/ \E t \in NowTimes :
             /\ now' = Set(now, p, t)
             /\ snapshot' = Set(snapshot, p, DOMAIN dir)
             /\ dir' = (FormatUncompressed(t) :> 0) @@ dir
             /\ Ok(p, "pg_dumpall")
             /\ UNCHANGED locals
    /\ UNCHANGED <<call, ret, history>>

\* the directory after pg_dumpall has written size bytes to its stdout
Written(d, nm, size) == IF nm \in DOMAIN d THEN [d EXCEPT ![nm] = size] ELSE d

\* make_backup: spawn()? and check("pg_dumpall").await?, then main's second
\* make_room call
PgDumpall(p) ==
    /\ pc[p] = "pg_dumpall"
    /\ \/ /\ Fail(p, "Io")
          /\ UNCHANGED <<dir, call, dumps, snapshot>>
       \/ \E s \in {0} \cup Sizes :
             /\ Fail(p, "Wheel")
             /\ dir' = Written(dir, FormatUncompressed(now[p]), s)
             /\ dumps' = Set(dumps, p, dumps[p] + 1)
             /\ UNCHANGED <<call, snapshot>>
       \/ \E s \in Sizes :
             /\ dir' = Written(dir, FormatUncompressed(now[p]), s)
             /\ dumps' = Set(dumps, p, dumps[p] + 1)
             /\ call' = Set(call, p, 2)
             /\ snapshot' = Set(snapshot, p, {})
             /\ Ok(p, "make_room")
             /\ UNCHANGED locals
    /\ UNCHANGED <<ret, now, queries, listings, gzipped, deleted>>

Next ==
    \/ MakeRoom(Main)
    \/ Query(Main)
    \/ Scan(Main)
    \/ Gzip(Main)
    \/ DeleteOne(Main)
    \/ RemoveFile(Main)
    \/ Return(Main)
    \/ MakeBackup(Main)
    \/ PgDumpall(Main)

Spec == Init /\ [][Next]_vars

\* main runs on one thread and every await returns: a run that can take a
\* step takes one
FairSpec == Spec /\ WF_vars(Next)

(***************************************************************************)
(* The selector on its own: delete_one entered from make_room on any       *)
(* directory over SelTimes, after a capacity query that left no room and   *)
(* a scan that found nothing small enough to compress.                     *)
(***************************************************************************)
SelFs == [avail |-> AMOUNT - Below, total |-> 110]

\* each file is as large as the space available: none can be compressed
SelSizes == {SelFs.avail}

SelInit ==
    /\ dir \in DirsOver(SelTimes, SelSizes)
    /\ pc = [p \in {Main} |-> "delete_one"]
    /\ call = [p \in {Main} |-> 1]
    /\ fs = [p \in {Main} |-> SelFs]
    /\ smallest_uncompressed = [p \in {Main} |-> None]
    /\ timestamps = [p \in {Main} |-> <<>>]
    /\ filename = [p \in {Main} |-> NoVictim]
    /\ ret = [p \in {Main} |-> "none"]
    /\ outcome = [p \in {Main} |-> "running"]
    /\ now = [p \in {Main} |-> NoTime]
    /\ queries = [p \in {Main} |-> 1]
    /\ listings = [p \in {Main} |-> 1]
    /\ gzipped = [p \in {Main} |-> 0]
    /\ deleted = [p \in {Main} |-> <<>>]
    /\ dumps = [p \in {Main} |-> 0]
    /\ failed = [p \in {Main} |-> "none"]
    /\ snapshot = [p \in {Main} |-> {}]

SelNext ==
    \/ DeleteOne(Main)
    \/ RemoveFile(Main)

SelSpec == SelInit /\ [][SelNext]_vars


(***************************************************************************)
(* Two runs of main at once on the same directory, each in make_room at    *)
(* its call of delete_one, as in SelInit.  The program takes no lock and   *)
(* looks for no other instance, so the steps of the two runs interleave    *)
(* freely.                                                                 *)
(***************************************************************************)
First == "first"

Second == "second"

Racers == {First, Second}

RaceInit ==
    /\ dir \in DirsOver(Times, SelSizes)
    /\ pc = [p \in Racers |-> "delete_one"]
    /\ call = [p \in Racers |-> 1]
    /\ fs = [p \in Racers |-> SelFs]
    /\ smallest_uncompressed = [p \in Racers |-> None]
    /\ timestamps = [p \in Racers |-> <<>>]
    /\ filename = [p \in Racers |-> NoVictim]
    /\ ret = [p \in Racers |-> "none"]
    /\ outcome = [p \in Racers |-> "running"]
    /\ now = [p \in Racers |-> NoTime]
    /\ queries = [p \in Racers |-> 1]
    /\ listings = [p \in Racers |-> 1]
    /\ gzipped = [p \in Racers |-> 0]
    /\ deleted = [p \in Racers |-> <<>>]
    /\ dumps = [p \in Racers |-> 0]
    /\ failed = [p \in Racers |-> "none"]
    /\ snapshot = [p \in Racers |-> {}]

RaceNext ==
    \/ DeleteOne(First)
    \/ RemoveFile(First)
    \/ DeleteOne(Second)
    \/ RemoveFile(Second)

RaceSpec == RaceInit /\ [][RaceNext]_vars

(***************************************************************************)
(* The filename codec on its own: a name is made as make_backup makes it,  *)
(* from a time drawn from CodecTimes, is renamed or not as gzip renames    *)
(* it, and is then put into the BTreeMap as delete_one does it; or a name  *)
(* that is no backup's is put into the map.                                *)
(***************************************************************************)
\* the days the times are drawn from: CodecDays days from each of these
CodecDays == 3

\* (the seconds of the years 1902 .. 2037 are the integers TLC can count)
CodecAnchors ==
    {DaysFromCivil(1901, 12, 14), DaysFromCivil(1904, 2, 26), DaysFromCivil(1969, 12, 30),
     DaysFromCivil(2000, 2, 27), DaysFromCivil(2023, 12, 29), DaysFromCivil(2024, 2, 27),
     DaysFromCivil(2025, 2, 26), DaysFromCivil(2037, 12, 27)}

CodecSeconds == {0, 1, 59, 60, 3599, 3600, 45296, 86399}

CodecTimes ==
    {(a + k) * SecondsPerDay + s : a \in CodecAnchors, k \in 0..CodecDays, s \in CodecSeconds}

\* a name with the given digits in the fields of the format
Stamp(y, m, d, h, n, s) ==
    Pad(y, 4) \o <<"-">> \o Pad(m, 2) \o <<"-">> \o Pad(d, 2) \o <<"_">>
    \o Pad(h, 2) \o <<"-">> \o Pad(n, 2) \o <<"-">> \o Pad(s, 2)

\* names that neither format matches
BadNames ==
    LET good == Stamp(2024, 2, 29, 12, 34, 56)
    IN  {JunkName,
         good,
         good \o <<".", "g", "z">>,
         good \o <<".", "s", "q">>,
         GzName(good \o COMPRESSED_SUFFIX),
         <<"x">> \o good \o UNCOMPRESSED_SUFFIX,
         good \o UNCOMPRESSED_SUFFIX \o <<"x">>,
         [good EXCEPT ![11] = "-"] \o UNCOMPRESSED_SUFFIX,
         [good EXCEPT ![3] = "x"] \o COMPRESSED_SUFFIX,
         Stamp(2024, 13, 1, 0, 0, 0) \o UNCOMPRESSED_SUFFIX,
         Stamp(2024, 0, 1, 0, 0, 0) \o UNCOMPRESSED_SUFFIX,
         Stamp(2024, 2, 30, 0, 0, 0) \o COMPRESSED_SUFFIX,
         Stamp(2023, 2, 29, 0, 0, 0) \o UNCOMPRESSED_SUFFIX,
         Stamp(1900, 2, 29, 0, 0, 0) \o UNCOMPRESSED_SUFFIX,
         Stamp(2024, 4, 31, 0, 0, 0) \o COMPRESSED_SUFFIX,
         Stamp(2024, 1, 0, 0, 0, 0) \o UNCOMPRESSED_SUFFIX,
         Stamp(2024, 1, 1, 24, 0, 0) \o UNCOMPRESSED_SUFFIX,
         Stamp(2024, 1, 1, 0, 60, 0) \o COMPRESSED_SUFFIX,
         Stamp(2024, 1, 1, 0, 0, 61) \o UNCOMPRESSED_SUFFIX}

CodecInit ==
    /\ dir = <<>>
    /\ now \in {[p \in {Main} |-> t] : t \in CodecTimes \cup {NoTime}}
    /\ filename \in IF now[Main] = NoTime
                    THEN {[p \in {Main} |-> nm] : nm \in BadNames}
                    ELSE {[p \in {Main} |-> NoVictim]}
    /\ pc = [p \in {Main} |-> IF now[p] = NoTime THEN "delete_one" ELSE "make_backup"]
    /\ call = [p \in {Main} |-> 1]
    /\ fs = [p \in {Main} |-> NoFs]
    /\ smallest_uncompressed = [p \in {Main} |-> None]
    /\ timestamps = [p \in {Main} |-> <<>>]
    /\ ret = [p \in {Main} |-> "none"]
    /\ outcome = [p \in {Main} |-> "running"]
    /\ queries = [p \in {Main} |-> 0]
    /\ listings = [p \in {Main} |-> 0]
    /\ gzipped = [p \in {Main} |-> 0]
    /\ deleted = [p \in {Main} |-> <<>>]
    /\ dumps = [p \in {Main} |-> 0]
    /\ failed = [p \in {Main} |-> "none"]
    /\ snapshot = [p \in {Main} |-> {}]

\* Utc::now().format(UNCOMPRESSED_FILENAME_FORMAT).to_string(); the file is
\* then left as it is or compressed
CodecEncode(p) ==
    /\ pc[p] = "make_backup"
    /\ filename' = Set(filename, p, FormatUncompressed(now[p]))
    /\ \/ Ok(p, "gzip")
       \/ Ok(p, "delete_one")
    /\ UNCHANGED <<dir, call, fs, smallest_uncompressed, timestamps, ret, now,
                   history, snapshot>>

\* gzip: the name of the compressed file
CodecGzip(p) ==
    /\ pc[p] = "gzip"
    /\ filename' = Set(filename, p, GzName(filename[p]))
    /\ gzipped' = Set(gzipped, p, gzipped[p] + 1)
    /\ Ok(p, "delete_one")
    /\ UNCHANGED <<dir, call, fs, smallest_uncompressed, timestamps, ret, now,
                   queries, listings, deleted, dumps, snapshot>>

\* timestamps.insert(datetime_from_str(..).or_else(..)?, filename)
CodecDecode(p) ==
    /\ pc[p] = "delete_one"
    /\ IF ParseFilename(filename[p]) = NoTime
       THEN /\ Fail(p, "ChronoParse")
       ELSE /\ timestamps' = Set(timestamps, p, ParseFilename(filename[p]) :> filename[p])
            /\ Ok(p, "ret")
            /\ UNCHANGED <<fs, smallest_uncompressed, filename>>
    /\ UNCHANGED <<dir, call, ret, now, history, snapshot>>

CodecNext ==
    \/ CodecEncode(Main)
    \/ CodecGzip(Main)
    \/ CodecDecode(Main)

CodecSpec == CodecInit /\ [][CodecNext]_vars

(***************************************************************************)
(* Vocabulary of the properties, stated on the directory itself.           *)
(***************************************************************************)
Names == DOMAIN dir

\* the times of the backups in the directory
DirTimes == {ParseFilename(nm) : nm \in Names}

AllParse == \A nm \in Names : ParseFilename(nm) # NoTime

DistinctTimes == \A a, b \in Names : a # b => ParseFilename(a) # ParseFilename(b)

Oldest(K) == CHOOSE x \in K : \A y \in K : x <= y

Newest(K) == CHOOSE x \in K : \A y \in K : x >= y

Interior(K) == K \ {Oldest(K), Newest(K)}

GapBefore(K, t) == t - Newest({x \in K : x < t})

GapAfter(K, t) == Oldest({x \in K : x > t}) - t

\* the pair of gaps around an interior time, smaller gap first
GapKey(K, t) ==
    IF GapBefore(K, t) <= GapAfter(K, t)
    THEN <<GapBefore(K, t), GapAfter(K, t)>>
    ELSE <<GapAfter(K, t), GapBefore(K, t)>>

LexLess(x, y) == x[1] < y[1] \/ (x[1] = y[1] /\ x[2] < y[2])

\* the file delete_one has chosen and is about to remove
Choosing == pc[Main] = "remove_file"

Victim == ParseFilename(filename[Main])

Running(o) == o[Main] = "running"

\* both floors of make_room's documentation hold of a capacity answer
Floors(f) ==
    /\ f.avail >= AMOUNT * GiB
    /\ f.avail * 100 >= AMOUNT * f.total

Uncompressed == {nm \in Names : ~ HasGzExtension(nm)}

\* an uncompressed backup smaller than the space the last query reported
Compressible == \E nm \in Uncompressed : dir[nm] < fs[Main].avail

P4Times == {At(0, 0), At(1, 0), At(1, 10), At(3, 0)}

P5Times == {At(h, 0) : h \in 0..4}

(***************************************************************************)
(* C1.  On an index of three or more entries delete_one chooses the        *)
(* interior entry whose sorted pair of gaps is lexicographically least,    *)
(* the earliest of those with the same pair: 01:00 of 00:00, 01:00, 01:10, *)
(* 03:00 and 01:00 of the five hours 00:00 .. 04:00.                       *)
(***************************************************************************)
C1_LeastKeyEarliest ==
    Choosing =>
        LET K == DirTimes
            v == Victim
        IN  Cardinality(K) >= 3 =>
                /\ filename[Main] \in Names
                /\ v \in Interior(K)
                /\ \A j \in Interior(K) :
                      \/ LexLess(GapKey(K, v), GapKey(K, j))
                      \/ GapKey(K, v) = GapKey(K, j) /\ v <= j
                /\ K = P4Times => v = At(1, 0)
                /\ K = P5Times => v = At(1, 0)

C1_Witness ==
    /\ Choosing
    /\ DirTimes = P5Times
    /\ Victim = At(1, 0)

(***************************************************************************)
(* C2.  On an index of three or more entries delete_one never chooses the  *)
(* oldest or the newest entry, and the removal that follows leaves every   *)
(* file of the oldest and of the newest time in the directory.             *)
(***************************************************************************)
C2_EndpointsKept ==
    [][Choosing =>
          LET K == DirTimes
          IN  Cardinality(K) >= 3 =>
                  /\ Victim \notin {Oldest(K), Newest(K)}
                  /\ \A nm \in Names :
                        ParseFilename(nm) \in {Oldest(K), Newest(K)}
                            => nm \in DOMAIN dir']_vars

C2_Witness ==
    /\ pc[Main] = "loop"
    /\ Len(deleted[Main]) = 1
    /\ Cardinality(Names) = 3
    /\ ParseFilename(deleted[Main][1]) > Oldest(DirTimes)
    /\ ParseFilename(deleted[Main][1]) < Newest(DirTimes)

(***************************************************************************)
(* C3.  On an index of exactly two entries delete_one chooses the file of  *)
(* the earlier time, whichever of the two files is compressed.             *)
(***************************************************************************)
C3_TwoEntriesOlder ==
    Choosing =>
        LET K == DirTimes
        IN  Cardinality(K) = 2 =>
                /\ filename[Main] \in Names
                /\ Victim = Oldest(K)

C3_Witness ==
    /\ Choosing
    /\ Cardinality(Names) = 2
    /\ Victim = Oldest(DirTimes)
    /\ HasGzExtension(filename[Main])
    /\ \E nm \in Names : ~ HasGzExtension(nm)

(***************************************************************************)
(* C4.  On an index of no or one entry delete_one chooses nothing: the     *)
(* step that builds the index makes make_room return false and deletes no  *)
(* file.                                                                   *)
(***************************************************************************)
C4_NothingToEvict ==
    [][(/\ pc[Main] = "delete_one"
        /\ AllParse
        /\ Cardinality(DirTimes) <= 1
        /\ Running(outcome')) =>
          /\ pc'[Main] = "ret"
          /\ ret'[Main] = "false"
          /\ filename'[Main] = NoVictim
          /\ dir' = dir
          /\ deleted' = deleted]_vars

C4_Witness ==
    /\ pc[Main] = "ret"
    /\ ret[Main] = "false"
    /\ Cardinality(Names) = 1
    /\ deleted[Main] = <<>>


(***************************************************************************)
(* C5.  When the first capacity query of a make_room call reports both     *)
(* floors met, the call returns true in that step: the directory is as it  *)
(* was, and the call has listed, compressed and deleted nothing.           *)
(***************************************************************************)
C5_EnoughRoomAtOnce ==
    [][(/\ pc[Main] = "loop"
        /\ queries[Main] = 0
        /\ queries'[Main] = 1
        /\ Floors(fs'[Main])) =>
          /\ pc'[Main] = "ret"
          /\ ret'[Main] = "true"
          /\ dir' = dir
          /\ listings'[Main] = 0
          /\ gzipped'[Main] = 0
          /\ deleted'[Main] = <<>>]_vars

C5_Witness ==
    /\ pc[Main] = "ret"
    /\ ret[Main] = "true"
    /\ queries[Main] = 1
    /\ fs[Main] = [avail |-> AMOUNT * GiB, total |-> 50]
    /\ Uncompressed # {}
    /\ listings[Main] = 0

(***************************************************************************)
(* C6.  make_room returns true only in a step that queries the capacity    *)
(* and gets an answer meeting both floors; an answer meeting one floor     *)
(* alone sends it on to the scan.                                          *)
(***************************************************************************)
C6_TrueOnlyWithBothFloors ==
    [][/\ (ret'[Main] = "true" /\ ret[Main] # "true") =>
              /\ pc[Main] = "loop"
              /\ queries'[Main] = queries[Main] + 1
              /\ Floors(fs'[Main])
       /\ (pc[Main] = "loop" /\ Running(outcome') /\ ~ Floors(fs'[Main])) =>
              /\ pc'[Main] = "scan"
              /\ ret'[Main] = "none"]_vars

C6_Witness ==
    /\ pc[Main] = "scan"
    /\ fs[Main].avail >= AMOUNT * GiB
    /\ fs[Main].avail * 100 < AMOUNT * fs[Main].total
    /\ ret[Main] = "none"

(***************************************************************************)
(* C7.  When make_room returns false and the backups left have pairwise    *)
(* distinct times, the last capacity answer misses a floor, no             *)
(* uncompressed backup is smaller than the available space, and at most    *)
(* one file is left.                                                       *)
(***************************************************************************)
C7_FalseOnlyWhenStuck ==
    (pc[Main] = "ret" /\ ret[Main] = "false" /\ DistinctTimes) =>
        /\ ~ Floors(fs[Main])
        /\ ~ Compressible
        /\ Cardinality(Names) <= 1

C7_Witness ==
    /\ pc[Main] = "ret"
    /\ ret[Main] = "false"
    /\ Len(deleted[Main]) = 3
    /\ gzipped[Main] = 1
    /\ Cardinality(Names) = 1

(***************************************************************************)
(* C8.  When the scan finds an uncompressed backup smaller than the        *)
(* available space, make_room goes on to gzip, on an uncompressed backup   *)
(* of the least size; gzip replaces that file by its compressed form and   *)
(* deletes nothing; and no file is deleted while such a backup exists.     *)
(***************************************************************************)
C8_CompressionPreferred ==
    [][/\ (pc[Main] = "scan" /\ Compressible /\ Running(outcome')) =>
              /\ pc'[Main] = "gzip"
              /\ dir' = dir
              /\ smallest_uncompressed'[Main] # None
              /\ smallest_uncompressed'[Main][1].path \in Uncompressed
              /\ \A nm \in Uncompressed :
                    dir[smallest_uncompressed'[Main][1].path] <= dir[nm]
       /\ (pc[Main] = "gzip" /\ Running(outcome')) =>
              /\ DOMAIN dir' = (Names \ {smallest_uncompressed[Main][1].path})
                                  \cup {GzName(smallest_uncompressed[Main][1].path)}
              /\ Cardinality(DOMAIN dir') = Cardinality(Names)
              /\ deleted' = deleted
       /\ deleted' # deleted => ~ Compressible]_vars

C8_Witness ==
    /\ pc[Main] = "gzip"
    /\ \E a, b \in Uncompressed : dir[a] < dir[b] /\ dir[b] < fs[Main].avail
    /\ \E nm \in Names : HasGzExtension(nm)

(***************************************************************************)
(* C9.  When the scan finds no uncompressed backup, or the smallest is as  *)
(* large as the available space or larger, gzip is not run and make_room   *)
(* goes on to delete_one, which builds its index from the directory as it  *)
(* is and chooses among the files there.                                   *)
(***************************************************************************)
C9_EvictionWhenUnsafe ==
    [][/\ (pc[Main] = "scan" /\ ~ Compressible /\ Running(outcome')) =>
              /\ pc'[Main] = "delete_one"
              /\ dir' = dir
              /\ gzipped' = gzipped
       /\ (pc[Main] = "delete_one" /\ Running(outcome')) =>
              /\ DOMAIN timestamps'[Main] = DirTimes
              /\ \A k \in DirTimes :
                    /\ timestamps'[Main][k] \in Names
                    /\ ParseFilename(timestamps'[Main][k]) = k
              /\ pc'[Main] = "remove_file" => filename'[Main] \in Names
              /\ dir' = dir
              /\ gzipped' = gzipped]_vars

C9_Witness ==
    /\ pc[Main] = "delete_one"
    /\ Cardinality(Uncompressed) >= 2
    /\ \E nm \in Uncompressed : dir[nm] = fs[Main].avail
    /\ \A nm \in Uncompressed : dir[nm] >= fs[Main].avail

(***************************************************************************)
(* C10.  A first make_room call on the four uncompressed backups of 00:00, *)
(* 01:00, 01:10 and 03:00 that has compressed nothing deletes 01:00, then  *)
(* 01:10, then 00:00; it goes on only while a floor is missed, returns     *)
(* true as soon as both are met, and returns false only after the three    *)
(* deletions, with 03:00 the one file left.                                *)
(***************************************************************************)
E2EOrder ==
    <<FormatUncompressed(At(1, 0)), FormatUncompressed(At(1, 10)),
      FormatUncompressed(At(0, 0))>>

E2EScenario ==
    /\ call[Main] = 1
    /\ pc[Main] \in {"loop", "scan", "gzip", "delete_one", "remove_file", "ret"}
    /\ gzipped[Main] = 0
    /\ Names \cup {deleted[Main][i] : i \in 1..Len(deleted[Main])}
          = {FormatUncompressed(t) : t \in P4Times}

C10_EvictionOrder ==
    E2EScenario =>
        /\ Len(deleted[Main]) <= 3
        /\ deleted[Main] = SubSeq(E2EOrder, 1, Len(deleted[Main]))
        /\ Cardinality(Names) = 4 - Len(deleted[Main])
        /\ pc[Main] \in {"scan", "gzip", "delete_one", "remove_file"} => ~ Floors(fs[Main])
        /\ (pc[Main] = "ret" /\ ret[Main] = "true") => Floors(fs[Main])
        /\ (pc[Main] = "ret" /\ ret[Main] = "false") =>
              /\ deleted[Main] = E2EOrder
              /\ Names = {FormatUncompressed(At(3, 0))}
              /\ ~ Floors(fs[Main])

C10_Witness ==
    /\ E2EScenario
    /\ pc[Main] = "ret"
    /\ ret[Main] = "false"
    /\ deleted[Main] = E2EOrder
    /\ Names = {FormatUncompressed(At(3, 0))}

(***************************************************************************)
(* C11.  pg_dumpall runs at most once in a run, and only from make_backup  *)
(* after the first make_room call has returned true; a file that is not    *)
(* the compressed form of one replaced in the same step appears only       *)
(* there; and when the first make_room call has returned false the run     *)
(* ends at once with the directory as it is and no dump made.              *)
(***************************************************************************)
C11_DumpGated ==
    [][/\ dumps'[Main] <= 1
       /\ dumps'[Main] # dumps[Main] =>
              /\ pc[Main] = "pg_dumpall"
              /\ call[Main] = 1
              /\ ret[Main] = "true"
       /\ \A nm \in DOMAIN dir' \ Names :
              \/ \E old \in Names \ DOMAIN dir' : nm = GzName(old)
              \/ pc[Main] = "make_backup" /\ call[Main] = 1 /\ ret[Main] = "true"
       /\ (call[Main] = 1 /\ ret[Main] = "false") =>
              /\ pc[Main] = "ret"
              /\ pc'[Main] = "exit"
              /\ outcome'[Main] = "ok"
              /\ dir' = dir
              /\ dumps'[Main] = 0
              /\ now'[Main] = NoTime]_vars

C11_Witness ==
    /\ pc[Main] = "exit"
    /\ outcome[Main] = "ok"
    /\ call[Main] = 1
    /\ ret[Main] = "false"
    /\ dumps[Main] = 0
    /\ now[Main] = NoTime
    /\ Cardinality(Names) = 1

(***************************************************************************)
(* C12.  make_backup is entered only from a first make_room call that      *)
(* returned true, and the second make_room call only from a pg_dumpall     *)
(* that exited with zero; a pg_dumpall that exits with another status ends *)
(* the run with an error and the step compresses and deletes nothing; the  *)
(* run ends with Ok whatever the second make_room call returns; and no     *)
(* step follows the end of the run.                                        *)
(***************************************************************************)
C12_ReclaimDumpReclaim ==
    [][/\ pc'[Main] = "make_backup" =>
              /\ pc[Main] = "ret"
              /\ call[Main] = 1
              /\ ret[Main] = "true"
              /\ dumps[Main] = 0
       /\ pc'[Main] = "make_room" =>
              /\ pc[Main] = "pg_dumpall"
              /\ call[Main] = 1
              /\ call'[Main] = 2
              /\ dumps'[Main] = 1
              /\ Running(outcome')
       /\ (pc[Main] = "pg_dumpall" /\ dumps' # dumps /\ ~ Running(outcome')) =>
              /\ pc'[Main] = "exit"
              /\ outcome'[Main] = "Wheel"
              /\ call'[Main] = 1
              /\ gzipped' = gzipped
              /\ deleted' = deleted
       /\ (pc[Main] = "ret" /\ call[Main] = 2) =>
              /\ pc'[Main] = "exit"
              /\ outcome'[Main] = "ok"
              /\ dir' = dir
       /\ pc[Main] # "exit"]_vars

C12_Witness ==
    /\ pc[Main] = "exit"
    /\ outcome[Main] = "ok"
    /\ call[Main] = 2
    /\ ret[Main] = "false"
    /\ dumps[Main] = 1
    /\ deleted[Main] # <<>>

(***************************************************************************)
(* C13.  The step in which an error arises ends the run with that error:   *)
(* the step compresses and deletes nothing and, unless it is pg_dumpall    *)
(* writing its output, leaves the directory as it is; no step follows, so  *)
(* nothing is retried, compressed, deleted or dumped after the error.  A   *)
(* gzip that fails is followed by the end of the run, not by delete_one.   *)
(***************************************************************************)
C13_AbortOnFirstError ==
    [][/\ Running(outcome)
       /\ Running(outcome') <=> pc'[Main] # "exit"
       /\ outcome'[Main] \notin {"running", "ok"} =>
              /\ pc'[Main] = "exit"
              /\ failed'[Main] = pc[Main]
              /\ gzipped' = gzipped
              /\ deleted' = deleted
              /\ dumps' # dumps => pc[Main] = "pg_dumpall"
              /\ pc[Main] # "pg_dumpall" => dir' = dir
       /\ outcome'[Main] \in {"running", "ok"} => failed'[Main] = "none"
       /\ (pc[Main] = "gzip" /\ pc'[Main] # "loop") =>
              /\ pc'[Main] = "exit"
              /\ outcome'[Main] = "Wheel"
              /\ dir' = dir
              /\ listings' = listings]_vars

C13_Witness ==
    /\ pc[Main] = "exit"
    /\ failed[Main] = "gzip"
    /\ outcome[Main] = "Wheel"
    /\ gzipped[Main] = 1
    /\ deleted[Main] = <<>>
    /\ Cardinality(Uncompressed) >= 2

(***************************************************************************)
(* C14.  When pg_dumpall cannot be started or exits with a non-zero        *)
(* status, the directory holds the files it held before make_backup began: *)
(* no entry for the time of the dump has been added.                       *)
(***************************************************************************)
C14_DumpAtomic ==
    failed[Main] = "pg_dumpall" => Names = snapshot[Main]

(***************************************************************************)
(* C15.  The name made from a whole-second time, compressed or not,        *)
(* decodes to that time, by the compressed format exactly when it was      *)
(* compressed (the uncompressed format is tried first), and carries the gz *)
(* extension exactly then; a name that neither format matches gives the    *)
(* parse error and no entry of the map.                                    *)
(***************************************************************************)
MatchesUncompressed(name) == ParseWith(name, UNCOMPRESSED_SUFFIX) # NoTime

MatchesCompressed(name) ==
    /\ ~ MatchesUncompressed(name)
    /\ ParseWith(name, COMPRESSED_SUFFIX) # NoTime

C15_RoundTrip ==
    /\ pc[Main] \in {"ret", "exit"} =>
           IF now[Main] # NoTime
           THEN /\ pc[Main] = "ret"
                /\ DOMAIN timestamps[Main] = {now[Main]}
                /\ timestamps[Main][now[Main]] = filename[Main]
                /\ MatchesCompressed(filename[Main]) <=> gzipped[Main] = 1
                /\ MatchesUncompressed(filename[Main]) <=> gzipped[Main] = 0
                /\ HasGzExtension(filename[Main]) <=> gzipped[Main] = 1
           ELSE /\ pc[Main] = "exit"
                /\ outcome[Main] = "ChronoParse"
                /\ timestamps[Main] = <<>>
    /\ (pc[Main] = "delete_one" /\ now[Main] = NoTime) =>
           /\ ~ MatchesUncompressed(filename[Main])
           /\ ~ MatchesCompressed(filename[Main])

C15_Witness ==
    /\ pc[Main] = "ret"
    /\ gzipped[Main] = 1
    /\ now[Main] = DaysFromCivil(2024, 2, 29) * SecondsPerDay + 86399
    /\ timestamps[Main] = (now[Main] :> FormatCompressed(now[Main]))

(***************************************************************************)
(* C16.  Every make_room call that is entered returns or ends the run with *)
(* an error.  Between its capacity queries the call does exactly one thing *)
(* to the directory: gzip makes one uncompressed file compressed and       *)
(* leaves the number of files, remove_file takes one file away; the        *)
(* iterations that did not return are the compressions and deletions done, *)
(* and those plus the files and uncompressed files left never exceed the   *)
(* files and uncompressed files at entry.                                  *)
(***************************************************************************)
InCall == pc[Main] \in {"loop", "scan", "gzip", "delete_one", "remove_file"}

Mutations == gzipped[Main] + Len(deleted[Main])

Measure == Cardinality(Uncompressed) + Cardinality(Names) + Mutations

C16_ReclaimTerminates ==
    /\ (pc[Main] = "make_room") ~> (pc[Main] \in {"ret", "exit"})
    /\ [][/\ (pc[Main] = "make_room" /\ Running(outcome')) =>
                 Mutations' = 0 /\ queries'[Main] = 0 /\ dir' = dir
          /\ pc[Main] = "loop" => queries[Main] = Mutations
          /\ pc[Main] \in {"scan", "gzip", "delete_one", "remove_file"} =>
                 queries[Main] = Mutations + 1
          /\ pc[Main] \in {"loop", "scan", "delete_one"} => dir' = dir /\ Mutations' = Mutations
          /\ (pc[Main] = "gzip" /\ Running(outcome')) =>
                 /\ pc'[Main] = "loop"
                 /\ gzipped'[Main] = gzipped[Main] + 1
                 /\ deleted' = deleted
                 /\ Cardinality(Uncompressed') = Cardinality(Uncompressed) - 1
                 /\ Cardinality(Names') = Cardinality(Names)
          /\ (pc[Main] = "remove_file" /\ Running(outcome')) =>
                 /\ pc'[Main] = "loop"
                 /\ Len(deleted'[Main]) = Len(deleted[Main]) + 1
                 /\ gzipped' = gzipped
                 /\ Cardinality(Names') = Cardinality(Names) - 1
          /\ InCall => Measure' <= Measure]_vars

C16_Witness ==
    /\ pc[Main] = "ret"
    /\ ret[Main] = "false"
    /\ call[Main] = 1
    /\ gzipped[Main] = 2
    /\ Len(deleted[Main]) = 3
    /\ queries[Main] = 6

(***************************************************************************)
(* C17.  A gzip step takes one uncompressed file away and puts its         *)
(* compressed form, of the same time, in its place; every other file stays *)
(* as it is, and so the set of times is the one before.  A remove_file     *)
(* step takes one file away and leaves every other file as it is.  A       *)
(* compressed file goes away only by remove_file, and an uncompressed file *)
(* appears only by make_backup.                                            *)
(***************************************************************************)
C17_CompressFrame ==
    [][/\ (pc[Main] = "gzip" /\ Running(outcome')) =>
              \E path \in Uncompressed :
                  /\ GzName(path) \notin Names
                  /\ DOMAIN dir' = (Names \ {path}) \cup {GzName(path)}
                  /\ HasGzExtension(GzName(path))
                  /\ ParseFilename(GzName(path)) = ParseFilename(path)
                  /\ \A nm \in Names \ {path} : dir'[nm] = dir[nm]
       /\ (pc[Main] = "remove_file" /\ Running(outcome')) =>
              \E nm \in Names :
                  /\ DOMAIN dir' = Names \ {nm}
                  /\ \A x \in Names \ {nm} : dir'[x] = dir[x]
       /\ \A nm \in Names :
              HasGzExtension(nm) =>
                  \/ nm \in DOMAIN dir' /\ dir'[nm] = dir[nm]
                  \/ pc[Main] = "remove_file"
       /\ \A nm \in DOMAIN dir' \ Names :
              ~ HasGzExtension(nm) => pc[Main] = "make_backup"]_vars

C17_Witness ==
    /\ pc[Main] = "loop"
    /\ gzipped[Main] = 2
    /\ Len(deleted[Main]) = 1
    /\ HasGzExtension(deleted[Main][1])
    /\ \E nm \in Names : ~ HasGzExtension(nm)

(***************************************************************************)
(* C18.  While the directory holds a name that neither format matches,     *)
(* delete_one ends the run with an error, the parse error once it has read *)
(* the listing, without choosing a file and without touching the           *)
(* directory; so no file is chosen or deleted while such a name is there.  *)
(***************************************************************************)
C18_IndexAllOrNothing ==
    [][/\ (pc[Main] = "delete_one" /\ ~ AllParse) =>
              /\ pc'[Main] = "exit"
              /\ outcome'[Main] \in {"ChronoParse", "BackupDir", "Wheel"}
              /\ listings' # listings => outcome'[Main] = "ChronoParse"
              /\ filename'[Main] = NoVictim
              /\ timestamps'[Main] = <<>>
              /\ dir' = dir
       /\ pc[Main] = "remove_file" => AllParse
       /\ deleted' # deleted => AllParse]_vars

C18_Witness ==
    /\ pc[Main] = "exit"
    /\ failed[Main] = "delete_one"
    /\ outcome[Main] = "ChronoParse"
    /\ JunkName \in Names
    /\ Cardinality(Names) >= 4
    /\ deleted[Main] = <<>>

(***************************************************************************)
(* C19.  In a directory of backups with pairwise distinct times the file   *)
(* delete_one chooses is never the one of the latest time.  So once        *)
(* pg_dumpall has written the new backup, and while the times are distinct *)
(* and none is later than the time of the dump, the new backup is in the   *)
(* directory, compressed or not, up to the end of the run.                 *)
(***************************************************************************)
NewBackupKept ==
    \/ FormatUncompressed(now[Main]) \in Names
    \/ FormatCompressed(now[Main]) \in Names

C19_NewestKept ==
    /\ pc[Main] = "remove_file" =>
           LET K == DirTimes
           IN  Cardinality(K) = Cardinality(Names) =>
                   /\ filename[Main] \in Names
                   /\ Victim < Newest(K)
    /\ call[Main] = 2 =>
           \/ NewBackupKept
           \/ ~ DistinctTimes
           \/ \E k \in DirTimes : k > now[Main]

C19_Witness ==
    /\ pc[Main] = "exit"
    /\ outcome[Main] = "ok"
    /\ call[Main] = 2
    /\ ret[Main] = "false"
    /\ Len(deleted[Main]) >= 2
    /\ Names = {FormatCompressed(now[Main])}

(***************************************************************************)
(* C20.  Two runs on one directory: a run whose chosen file is gone when   *)
(* it comes to remove it ends with the error of remove_file, and nothing   *)
(* else can happen to it.  The state in which both runs have built the     *)
(* same index from the same listing and chosen the same file, and one has  *)
(* removed it, is reached.                                                 *)
(***************************************************************************)
C20_SecondRemovalFails ==
    [][\A p \in Racers :
          (/\ pc[p] = "remove_file"
           /\ filename[p] \notin Names
           /\ pc'[p] # pc[p]) =>
              /\ pc'[p] = "exit"
              /\ outcome'[p] = "Wheel"
              /\ failed'[p] = "remove_file"
              /\ dir' = dir
              /\ deleted' = deleted]_vars

C20_Witness ==
    /\ pc[First] = "loop"
    /\ Len(deleted[First]) = 1
    /\ pc[Second] = "remove_file"
    /\ filename[Second] = deleted[First][1]
    /\ filename[Second] \notin Names
    /\ {timestamps[Second][k] : k \in DOMAIN timestamps[Second]}
          = Names \cup {deleted[First][1]}
    /\ Cardinality(Names) >= 2

=============================================================================
